---- MODULE Spec2Model ----
(***************************************************************************)
(* Model of the cfn-custom-resource-go library: the Request factories      *)
(* (req.go), Response.Sensitive / Response.Send (resp.go) and the          *)
(* invocation runner Request.Try (req.go).                                 *)
(*                                                                         *)
(* Go strings are TLA+ strings.  A Go error is the sequence of the texts   *)
(* of its Unwrap chain, outermost first: <<>> is the nil error, e[1] is    *)
(* e.Error() and Tail(e) is errors.Unwrap(e).  A Response's Data           *)
(* (interface{}) is a record naming its kind and, for an encodable value,  *)
(* its JSON encoding.                                                      *)
(***************************************************************************)
EXTENDS Integers, Sequences, FiniteSets, TLC

VARIABLES req, resps, pc, tries, delivered, lastCall, cur

vars == <<req, resps, pc, tries, delivered, lastCall, cur>>

(***************************************************************************)
(* Bounds of the exploration.                                              *)
(***************************************************************************)
\* Response objects a handler may build over the life of the Request
MaxResponses == 1
\* Send calls a handler may make during one Try invocation
MaxSends == 2
\* Try invocations on the Request
MaxTry == 1

(***************************************************************************)
(* Program constants.                                                      *)
(***************************************************************************)
\* resp.go:130  len(body) > 4096
MaxBody == 4096
\* resp.go:142  result.StatusCode < 200
StatusLow == 200
\* resp.go:142  result.StatusCode >= 299
StatusHigh == 299

(***************************************************************************)
(* Strings.                                                                *)
(***************************************************************************)
RECURSIVE Rep(_, _)
\* s repeated n times
Rep(s, n) ==
    IF n = 0 THEN ""
    ELSE LET h == Rep(s, n \div 2)
         IN  IF n % 2 = 0 THEN h \o h ELSE h \o h \o s

\* encoding/json's escape of one character inside a string literal
\* (printable ASCII: quote, backslash and the HTML-sensitive characters)
EscChar(c) ==
    CASE c = "\"" -> "\\\""
      [] c = "\\" -> "\\\\"
      [] c = "<"  -> "\\u003c"
      [] c = ">"  -> "\\u003e"
      [] c = "&"  -> "\\u0026"
      [] OTHER    -> c

JSONSpecials == {"\"", "\\", "<", ">", "&"}

RECURSIVE EscEach(_)
EscEach(s) ==
    IF Len(s) = 0 THEN ""
    ELSE IF Len(s) = 1 THEN EscChar(s)
    ELSE LET m == Len(s) \div 2
         IN  EscEach(SubSeq(s, 1, m)) \o EscEach(SubSeq(s, m + 1, Len(s)))

\* encoding/json's escape of the characters of a string: a string without
\* special characters (a run of the letter e, or one found to have none by
\* looking at each character) is copied as it is
Esc(s) ==
    IF s = Rep("e", Len(s)) THEN s
    ELSE IF \E i \in 1..Len(s) : SubSeq(s, i, i) \in JSONSpecials
    THEN EscEach(s)
    ELSE s

\* encoding/json's encoding of a Go string
JSONString(s) == "\"" \o Esc(s) \o "\""

\* strconv.Quote's escape of one printable ASCII character
QuoteChar(c) ==
    CASE c = "\"" -> "\\\""
      [] c = "\\" -> "\\\\"
      [] OTHER    -> c

QuoteSpecials == {"\"", "\\"}

RECURSIVE QuoteEach(_)
QuoteEach(s) ==
    IF Len(s) = 0 THEN ""
    ELSE IF Len(s) = 1 THEN QuoteChar(s)
    ELSE LET m == Len(s) \div 2
         IN  QuoteEach(SubSeq(s, 1, m)) \o QuoteEach(SubSeq(s, m + 1, Len(s)))

QuoteEsc(s) ==
    IF \E i \in 1..Len(s) : SubSeq(s, i, i) \in QuoteSpecials
    THEN QuoteEach(s)
    ELSE s

\* fmt's %q of a string
FmtQ(s) == "\"" \o QuoteEsc(s) \o "\""

\* fmt's %03d of a non-negative integer
Fmt03d(n) ==
    IF n < 10 THEN "00" \o ToString(n)
    ELSE IF n < 100 THEN "0" \o ToString(n)
    ELSE ToString(n)

(***************************************************************************)
(* Errors.                                                                 *)
(***************************************************************************)
Nil == <<>>

\* errors.New(text) / fmt.Errorf without %w
NewError(text) == <<text>>

\* fmt.Errorf(prefix + "%w", e)
Wrap(prefix, e) == <<prefix \o e[1]>> \o e

\* err.Error()
ErrorText(e) == e[1]

\* errors.Is(e, target) for the comparable errors of this model
RECURSIVE ErrorsIs(_, _)
ErrorsIs(e, target) ==
    IF e = Nil THEN FALSE
    ELSE IF e = target THEN TRUE
    ELSE ErrorsIs(Tail(e), target)

(***************************************************************************)
(* Input domains.                                                          *)
(***************************************************************************)
ReqTypes == {"Create", "Update", "Delete"}

GoodURL == "https://cfn.example/cb"
\* a callback URL that url.Parse rejects
BadURL == ":bad"

TheStackId == "stack/s1"
TheRequestId == "req-7f3a"
TheLogicalId == "Widget"

OldPhysId == "phys-1"
NewPhysId == "phys-2"
PhysIds == {"", OldPhysId, NewPhysId}

\* Data values (interface{}): nil, a value with a JSON encoding, or a value
\* encoding/json cannot encode (a channel)
NilData == [kind |-> "nil", enc |-> ""]
ChanData == [kind |-> "chan", enc |-> ""]
PadData(n) == [kind |-> "value", enc |-> "{\"Pad\":\"" \o Rep("x", n) \o "\"}"]

\* texts of the errors a handler returns or panics with
HugeText == Rep("e", MaxBody)
HandlerTexts == {"", "boom <&> \"quoted\"", HugeText}

\* reasons a handler gives to FailureResponse
HandlerReasons == {"", "not implemented yet"}

\* what the callback endpoint answers
StatusCodes == {199, 200, 298, 299, 300}
NetOutcomes ==
    {[kind |-> "error", status |-> 0]} \cup
    {[kind |-> "status", status |-> c] : c \in StatusCodes}
\* the endpoint is not asked
NoAnswer == [kind |-> "none", status |-> 0]

\* panic values of a handler that are not errors
PanicTexts == {"invalid request type"}

(***************************************************************************)
(* Request (req.go).                                                       *)
(***************************************************************************)
\* a Request decoded from the inbound message
DecodedRequest(reqtype, url, physid) ==
    [RequestType        |-> reqtype,
     ResponseURL        |-> url,
     StackId            |-> TheStackId,
     RequestId          |-> TheRequestId,
     LogicalResourceId  |-> TheLogicalId,
     PhysicalResourceId |-> physid,
     Ctx                |-> "nil",
     responseSent       |-> FALSE,
     simulate           |-> FALSE]

\* SimulatedRequest handing out a Request that has a callback URL
SimulatedRequestWithURL(reqtype) ==
    [RequestType        |-> reqtype,
     ResponseURL        |-> GoodURL,
     StackId            |-> "",
     RequestId          |-> "",
     LogicalResourceId  |-> "",
     PhysicalResourceId |-> "",
     Ctx                |-> "nil",
     responseSent       |-> FALSE,
     simulate           |-> TRUE]

\* req.go:45  SimulatedRequest(reqtype, log), for a legal reqtype
SimulatedRequest(reqtype) ==
    [RequestType        |-> reqtype,
     ResponseURL        |-> "",
     StackId            |-> "",
     RequestId          |-> "",
     LogicalResourceId  |-> "",
     PhysicalResourceId |-> "",
     Ctx                |-> "nil",
     responseSent       |-> FALSE,
     simulate           |-> TRUE]

\* resp.go:74-79  the execution scope baseResponse leaves on the Request
baseCtx(r) == IF r.Ctx = "nil" THEN "Background" ELSE r.Ctx

\* baseResponse copying the logical resource id into RequestId
baseResponseMixedIds(r) ==
    [Status             |-> "SUCCESS",
     Reason             |-> "",
     PhysicalResourceId |-> r.PhysicalResourceId,
     StackId            |-> r.StackId,
     RequestId          |-> r.LogicalResourceId,
     LogicalResourceId  |-> r.LogicalResourceId,
     NoEcho             |-> FALSE,
     Data               |-> NilData,
     Ctx                |-> baseCtx(r),
     respurl            |-> r.ResponseURL,
     sent               |-> "req.responseSent"]

\* resp.go:80-89  the Response baseResponse returns; sent names the flag
\* the Response points at
baseResponse(r) ==
    [Status             |-> "SUCCESS",
     Reason             |-> "",
     PhysicalResourceId |-> r.PhysicalResourceId,
     StackId            |-> r.StackId,
     RequestId          |-> r.RequestId,
     LogicalResourceId  |-> r.LogicalResourceId,
     NoEcho             |-> FALSE,
     Data               |-> NilData,
     Ctx                |-> baseCtx(r),
     respurl            |-> r.ResponseURL,
     sent               |-> "req.responseSent"]

\* what a factory call does: it panics with a value or returns a Response
Panics(v) == [panicked |-> TRUE, value |-> v, resp |-> <<>>]
Returns(resp) == [panicked |-> FALSE, value |-> "", resp |-> resp]

\* req.go:77-83
FailureResponse(r, reason) ==
    Returns([baseResponse(r) EXCEPT !.Status = "FAILED", !.Reason = reason])

\* req.go:91-102
CreatedResponse(r, physicalid, attr) ==
    IF r.RequestType # "Create"
    THEN Panics("created response on a non-create request")
    ELSE IF physicalid = ""
    THEN Panics("created response with empty physicalid")
    ELSE Returns([baseResponse(r) EXCEPT !.PhysicalResourceId = physicalid,
                                         !.Data = attr])

\* ReplacedResponse without its check against the existing physical id
ReplacedResponseSameIdAllowed(r, physicalid, attr) ==
    IF r.RequestType # "Update"
    THEN Panics("replaced response on a non-update request")
    ELSE IF physicalid = ""
    THEN Panics("replaced response with empty physicalid")
    ELSE Returns([baseResponse(r) EXCEPT !.PhysicalResourceId = physicalid,
                                         !.Data = attr])

\* req.go:109-123
ReplacedResponse(r, physicalid, attr) ==
    IF r.RequestType # "Update"
    THEN Panics("replaced response on a non-update request")
    ELSE IF r.PhysicalResourceId = physicalid
    THEN Panics("replaced response with same physicalid")
    ELSE IF physicalid = ""
    THEN Panics("replaced response with empty physicalid")
    ELSE Returns([baseResponse(r) EXCEPT !.PhysicalResourceId = physicalid,
                                         !.Data = attr])

\* req.go:128-135
UpdatedResponse(r, attr) ==
    IF r.RequestType # "Update"
    THEN Panics("updated response on a non-update request")
    ELSE Returns([baseResponse(r) EXCEPT !.Data = attr])

\* DeletedResponse without its request type check
DeletedResponseUnchecked(r) == Returns(baseResponse(r))

\* req.go:139-144
DeletedResponse(r) ==
    IF r.RequestType # "Delete"
    THEN Panics("deleted response on a non-delete request")
    ELSE Returns(baseResponse(r))

(***************************************************************************)
(* Response (resp.go).                                                     *)
(***************************************************************************)
\* resp.go:110-113
Sensitive(resp) == [resp EXCEPT !.NoEcho = TRUE]

\* resp.go:57-71  encoding/json's encoding of a Response: the exported
\* fields in declaration order, omitempty fields left out when empty
MarshalBody(resp) ==
    "{\"Status\":" \o JSONString(resp.Status)
    \o (IF resp.Reason = "" THEN "" ELSE ",\"Reason\":" \o JSONString(resp.Reason))
    \o ",\"PhysicalResourceId\":" \o JSONString(resp.PhysicalResourceId)
    \o ",\"StackId\":" \o JSONString(resp.StackId)
    \o ",\"RequestId\":" \o JSONString(resp.RequestId)
    \o ",\"LogicalResourceId\":" \o JSONString(resp.LogicalResourceId)
    \o (IF resp.NoEcho THEN ",\"NoEcho\":true" ELSE "")
    \o (IF resp.Data.kind = "nil" THEN "" ELSE ",\"Data\":" \o resp.Data.enc)
    \o "}"

\* resp.go:126  json.Marshal(resp)
Marshal(resp) ==
    IF resp.Data.kind = "chan"
    THEN [err |-> NewError("json: unsupported type: chan int"), body |-> ""]
    ELSE [err |-> Nil, body |-> MarshalBody(resp)]

\* resp.go:133  http.NewRequestWithContext: url.Parse of the callback URL
NewRequestError(url) ==
    IF url = BadURL
    THEN NewError("parse " \o FmtQ(url) \o ": missing protocol scheme")
    ELSE Nil

\* resp.go:138  http.DefaultClient.Do: a URL without scheme is refused by
\* the client before anything is written to the network; otherwise the
\* endpoint and the network decide (net)
ClientDo(url, net) ==
    IF url = ""
    THEN [err |-> NewError("Put " \o FmtQ(url) \o ": unsupported protocol scheme \"\""),
          status |-> 0, network |-> FALSE]
    ELSE IF net.kind = "error"
    THEN [err |-> NewError("Put " \o FmtQ(url) \o ": dial tcp: connection refused"),
          status |-> 0, network |-> TRUE]
    ELSE [err |-> Nil, status |-> net.status, network |-> TRUE]


\* the status check letting 299 and 300 through
BadStatusWide(code) == code < StatusLow \/ code > 300

\* resp.go:142  the status check
BadStatus(code) == code < StatusLow \/ code >= StatusHigh

\* What a Send call did:
\*   err     the error returned (Nil on success)
\*   cause   which step failed
\*   len     len(body) (0 when marshalling failed)
\*   built   the HTTP request object was constructed
\*   do      http.DefaultClient.Do was called
\*   network the call went out to the network
\*   status  the HTTP status received (0 when none)
\*   sets    *resp.sent = true was executed
NoSend ==
    [err |-> Nil, cause |-> "", len |-> 0, built |-> FALSE, do |-> FALSE,
     network |-> FALSE, status |-> 0, sets |-> FALSE]

\* the local part of Send with the size check one byte too lenient
SendLocalLenient(resp) ==
    LET m == Marshal(resp)
        n == Len(m.body)
        cerr == NewRequestError(resp.respurl)
    IN  IF m.err # Nil
        THEN [NoSend EXCEPT !.err = Wrap("could not marshal Response: ", m.err),
                            !.cause = "marshal"]
        ELSE IF n > MaxBody + 1
        THEN [NoSend EXCEPT !.err = NewError("response to " \o FmtQ(resp.respurl)
                                       \o " would include payload of " \o ToString(n)
                                       \o " bytes, exceeds max 4096"),
                            !.cause = "too large", !.len = n]
        ELSE IF cerr # Nil
        THEN [NoSend EXCEPT !.err = Wrap("could not build request object for http callback to "
                                       \o FmtQ(resp.respurl) \o ": ", cerr),
                            !.cause = "build", !.len = n]
        ELSE [NoSend EXCEPT !.len = n, !.built = TRUE]

\* resp.go:126-137  the local part of Response.Send: marshal, size check
\* and construction of the HTTP request
SendLocal(resp) ==
    LET m == Marshal(resp)
        n == Len(m.body)
        cerr == NewRequestError(resp.respurl)
    IN  IF m.err # Nil
        THEN [NoSend EXCEPT !.err = Wrap("could not marshal Response: ", m.err),
                            !.cause = "marshal"]
        ELSE IF n > MaxBody
        THEN [NoSend EXCEPT !.err = NewError("response to " \o FmtQ(resp.respurl)
                                       \o " would include payload of " \o ToString(n)
                                       \o " bytes, exceeds max 4096"),
                            !.cause = "too large", !.len = n]
        ELSE IF cerr # Nil
        THEN [NoSend EXCEPT !.err = Wrap("could not build request object for http callback to "
                                       \o FmtQ(resp.respurl) \o ": ", cerr),
                            !.cause = "build", !.len = n]
        ELSE [NoSend EXCEPT !.len = n, !.built = TRUE]

\* the remote part of Send marking the Request as answered before it looks
\* at the status
SendRemoteMarksFirst(resp, loc, net) ==
    LET d == ClientDo(resp.respurl, net)
    IN  IF loc.err # Nil THEN loc
        ELSE IF d.err # Nil
        THEN [loc EXCEPT !.err = Wrap("http callback to cloudformation at "
                                    \o FmtQ(resp.respurl) \o " failed: ", d.err),
                         !.cause = "transport", !.do = TRUE, !.network = d.network]
        ELSE IF BadStatus(d.status)
        THEN [loc EXCEPT !.err = NewError("http callback to " \o FmtQ(resp.respurl)
                                    \o " had unexpected http status code "
                                    \o Fmt03d(d.status)),
                         !.cause = "status", !.do = TRUE, !.network = TRUE,
                         !.status = d.status, !.sets = TRUE]
        ELSE [loc EXCEPT !.do = TRUE, !.network = TRUE, !.status = d.status,
                         !.sets = TRUE]

\* resp.go:138-147  the remote part of Response.Send, after the local part
\* did loc, against an endpoint behaving as net
SendRemote(resp, loc, net) ==
    LET d == ClientDo(resp.respurl, net)
    IN  IF loc.err # Nil THEN loc
        ELSE IF d.err # Nil
        THEN [loc EXCEPT !.err = Wrap("http callback to cloudformation at "
                                    \o FmtQ(resp.respurl) \o " failed: ", d.err),
                         !.cause = "transport", !.do = TRUE, !.network = d.network]
        ELSE IF BadStatus(d.status)
        THEN [loc EXCEPT !.err = NewError("http callback to " \o FmtQ(resp.respurl)
                                    \o " had unexpected http status code "
                                    \o Fmt03d(d.status)),
                         !.cause = "status", !.do = TRUE, !.network = TRUE,
                         !.status = d.status]
        ELSE [loc EXCEPT !.do = TRUE, !.network = TRUE, !.status = d.status,
                         !.sets = TRUE]

\* the answers the environment can give to a Send whose local part did loc
Answers(loc) == IF loc.err # Nil THEN {NoAnswer} ELSE NetOutcomes

(***************************************************************************)
(* Request.Try (req.go:153-190), as pure steps.                            *)
(***************************************************************************)
\* a panic value: an error, or any other value (a string here)
PanicError(e) == [isError |-> TRUE, err |-> e, text |-> ""]
PanicValue(t) == [isError |-> FALSE, err |-> Nil, text |-> t]

\* the inner defer recovering the panic without setting err
RecoveredLost(rec) == Nil

\* req.go:170-178  inner defer: err after recovering the panic value rec
Recovered(rec) ==
    IF rec.isError
    THEN Wrap("panic with error: ", rec.err)
    ELSE NewError("panic with value: " \o rec.text)

\* the body of Try without its completion check
CompletedUnchecked(ferr, sent) == ferr

\* req.go:181-189  err after the handler returned ferr
Completed(ferr, sent) ==
    IF ferr # Nil THEN ferr
    ELSE IF ~sent THEN NewError("no response generated and no error received")
    ELSE Nil

\* the outer defer leaving the error of the completion check undelivered
DeferSendsSkipsMissing(r, err) ==
    /\ err # Nil
    /\ ~r.responseSent
    /\ err # NewError("no response generated and no error received")

\* the outer defer sending a failure Response without looking at the flag
DeferSendsAlways(r, err) == err # Nil

\* req.go:157-162  the outer defer builds and sends a failure Response
DeferSends(r, err) == err # Nil /\ ~r.responseSent

\* the outer defer returning the error as it is when the response was
\* already sent
OuterDeferUnwrapped(r, err, out) ==
    IF err = Nil
    THEN [panicked |-> FALSE, value |-> Nil, err |-> Nil]
    ELSE IF r.responseSent
    THEN [panicked |-> FALSE, value |-> Nil, err |-> err]
    ELSE IF out.err # Nil
    THEN [panicked |-> TRUE,
          value |-> Wrap("cannot send error response in error handler: ", out.err),
          err |-> Nil]
    ELSE [panicked |-> FALSE, value |-> Nil, err |-> err]

\* the outer defer returning the error when the failure Response cannot be
\* sent, instead of panicking
OuterDeferSwallows(r, err, out) ==
    IF err = Nil
    THEN [panicked |-> FALSE, value |-> Nil, err |-> Nil]
    ELSE IF r.responseSent
    THEN [panicked |-> FALSE, value |-> Nil,
          err |-> Wrap("received error but response already sent: ", err)]
    ELSE [panicked |-> FALSE, value |-> Nil, err |-> err]

\* req.go:156-167  outer defer, for err as the body and the inner defer left
\* it and out what the Send of the failure Response did (when it is sent):
\*   panicked Try ends by panicking with value
\*   err      the error Try returns otherwise
OuterDefer(r, err, out) ==
    IF err = Nil
    THEN [panicked |-> FALSE, value |-> Nil, err |-> Nil]
    ELSE IF r.responseSent
    THEN [panicked |-> FALSE, value |-> Nil,
          err |-> Wrap("received error but response already sent: ", err)]
    ELSE IF out.err # Nil
    THEN [panicked |-> TRUE,
          value |-> Wrap("cannot send error response in error handler: ", out.err),
          err |-> Nil]
    ELSE [panicked |-> FALSE, value |-> Nil, err |-> err]

\* req.go:156-167  what the outer defer does with err on the Request r
\* against an endpoint behaving as net: the Send calls it makes (attempts),
\* the flag afterwards (sent) and how Try ends (outcome)
Reconcile(r, err, net) ==
    LET sends == DeferSends(r, err)
        fr == FailureResponse(r, ErrorText(err)).resp
        out == SendRemote(fr, SendLocal(fr), net)
        d == OuterDefer(r, err, out)
    IN  [attempts |-> IF sends THEN 1 ELSE 0,
         sent     |-> r.responseSent \/ (sends /\ out.sets),
         outcome  |-> IF d.panicked THEN "panicked"
                      ELSE IF d.err = Nil THEN "returned nil"
                      ELSE "returned error"]

(***************************************************************************)
(* State machine: one Request, the Responses built from it, and up to      *)
(* MaxTry invocations of Try, each running an arbitrary handler.           *)
(*                                                                         *)
(*   req       the Request                                                 *)
(*   resps     the Responses built from it, in order of construction       *)
(*   pc        "main" (outside Try), "handler" (inside f), "aborted" (a    *)
(*             panic left Try)                                             *)
(*   tries     Try invocations started                                     *)
(*   delivered one entry per Send call that returned nil: the index in    *)
(*             resps of the Response and the HTTP status received          *)
(*   lastCall  the last library call and what it did                       *)
(*   cur       the current (or last) Try invocation                        *)
(***************************************************************************)
\* the envelope of a success Response around its Data, and the Data values
\* that put the body of such a Response exactly at and just over the limit
EnvelopeLen ==
    Len(MarshalBody(CreatedResponse(DecodedRequest("Create", GoodURL, ""),
                                    NewPhysId, PadData(0)).resp))
FitData == PadData(MaxBody - EnvelopeLen)
OverData == PadData(MaxBody - EnvelopeLen + 1)
Attrs == {NilData, FitData, OverData, ChanData}

NoCall ==
    [op |-> "none", by |-> "", idx |-> 0, out |-> NoSend, sentBefore |-> FALSE]

\* the record of a Send call on resps[i]
SendCall(by, i, out, before) ==
    [op |-> "Send", by |-> by, idx |-> i, out |-> out, sentBefore |-> before]

\* the record of another call by the handler
OtherCall(op, i) ==
    [op |-> op, by |-> "handler", idx |-> i, out |-> NoSend,
     sentBefore |-> req.responseSent]

\* The record of a Try invocation:
\*   startSent the flag when Try was called
\*   built     Responses the handler has built (over all invocations)
\*   sends, hdoes, hoks   the handler's Send calls, those that reached
\*             http.DefaultClient.Do, those that returned nil
\*   ended     how f ended; panicOp the factory that panicked, rec the panic
\*             value, herr the error f returned
\*   trySends, tryDoes, tryOks   the same three counts for Try's own Send
\*   synth     failure Responses Try has built (over all invocations)
\*   result    "returned" (with err) or "panicked" (with value)
NoTry ==
    [startSent |-> FALSE, built |-> 0, sends |-> 0, hdoes |-> 0, hoks |-> 0,
     ended |-> "none", panicOp |-> "", rec |-> PanicValue(""), herr |-> Nil,
     trySends |-> 0, tryDoes |-> 0, tryOks |-> 0, synth |-> 0,
     result |-> "none", err |-> Nil, value |-> Nil]

Init ==
    /\ req \in {DecodedRequest("Create", u, "") : u \in {GoodURL, BadURL}}
               \cup {DecodedRequest(t, u, OldPhysId) :
                        t \in {"Update", "Delete"}, u \in {GoodURL, BadURL}}
               \cup {SimulatedRequest(t) : t \in ReqTypes}
    /\ resps = <<>>
    /\ pc = "main"
    /\ tries = 0
    /\ delivered = <<>>
    /\ lastCall = NoCall
    /\ cur = NoTry

\* main calls req.Try(f): Try installs its defers and calls f(req)
TryCall ==
    /\ pc = "main"
    /\ tries < MaxTry
    /\ pc' = "handler"
    /\ tries' = tries + 1
    /\ cur' = [NoTry EXCEPT !.startSent = req.responseSent, !.built = cur.built,
                            !.synth = cur.synth,
                            !.ended = "running"]
    /\ lastCall' = NoCall
    /\ UNCHANGED <<req, resps, delivered>>

\* req.go:153-190  the rest of Try once f has ended (how: it returned herr
\* or panicked with rec, inside the factory op or in its own code), err
\* being the named result after the inner defer and the completion check:
\* the outer defer and Try's outcome
Finish(how, op, rec, herr, err) ==
    LET sends == DeferSends(req, err)
        fr == FailureResponse(req, ErrorText(err)).resp
        loc == SendLocal(fr)
        i == Len(resps) + 1
    IN  \E net \in (IF sends THEN Answers(loc) ELSE {NoAnswer}) :
            LET out == SendRemote(fr, loc, net)
                d == OuterDefer(req, err, out)
                do == IF sends /\ out.do THEN 1 ELSE 0
                ok == IF sends /\ out.sets THEN 1 ELSE 0
            IN  /\ resps' = IF sends THEN Append(resps, fr) ELSE resps
                /\ req' = IF sends
                          THEN [req EXCEPT !.Ctx = baseCtx(req),
                                           !.responseSent = req.responseSent \/ out.sets]
                          ELSE req
                /\ delivered' = IF ok = 1
                                THEN Append(delivered, [idx |-> i, status |-> out.status])
                                ELSE delivered
                /\ lastCall' = IF sends
                               THEN SendCall("Try", i, out, req.responseSent)
                               ELSE NoCall
                /\ cur' = [cur EXCEPT !.ended = how, !.panicOp = op, !.rec = rec,
                                      !.herr = herr,
                                      !.trySends = IF sends THEN 1 ELSE 0,
                                      !.tryDoes = do, !.tryOks = ok,
                                      !.synth = cur.synth + (IF sends THEN 1 ELSE 0),
                                      !.result = IF d.panicked THEN "panicked"
                                                 ELSE "returned",
                                      !.err = d.err, !.value = d.value]
                /\ pc' = IF d.panicked THEN "aborted" ELSE "main"
                /\ UNCHANGED tries

\* the handler calls a factory: the call panics (and Try unwinds) or the
\* Response joins resps
Factory(op, call) ==
    /\ pc = "handler"
    /\ cur.built < MaxResponses
    /\ IF call.panicked
       THEN Finish("panicked", op, PanicValue(call.value), Nil,
                   Recovered(PanicValue(call.value)))
       ELSE /\ resps' = Append(resps, call.resp)
            /\ req' = [req EXCEPT !.Ctx = baseCtx(req)]
            /\ lastCall' = OtherCall(op, Len(resps) + 1)
            /\ cur' = [cur EXCEPT !.built = cur.built + 1]
            /\ UNCHANGED <<pc, tries, delivered>>

HandlerFailureResponse ==
    \E call \in {FailureResponse(req, reason) : reason \in HandlerReasons} :
        Factory("FailureResponse", call)

HandlerCreatedResponse ==
    \E call \in {CreatedResponse(req, physicalid, attr) :
                    physicalid \in PhysIds, attr \in Attrs} :
        Factory("CreatedResponse", call)

HandlerReplacedResponse ==
    \E call \in {ReplacedResponse(req, physicalid, attr) :
                    physicalid \in PhysIds, attr \in Attrs} :
        Factory("ReplacedResponse", call)

HandlerUpdatedResponse ==
    \E call \in {UpdatedResponse(req, attr) : attr \in Attrs} :
        Factory("UpdatedResponse", call)

HandlerDeletedResponse ==
    \E call \in {DeletedResponse(req)} :
        Factory("DeletedResponse", call)

\* the handler calls resps[i].Sensitive()
HandlerSensitive ==
    \E i \in 1..Len(resps) :
        /\ pc = "handler"
        /\ resps' = [resps EXCEPT ![i] = Sensitive(resps[i])]
        /\ lastCall' = OtherCall("Sensitive", i)
        /\ UNCHANGED <<req, pc, tries, delivered, cur>>

\* the handler calls resps[i].Send()
HandlerSend ==
    \E i \in 1..Len(resps) :
        LET loc == SendLocal(resps[i])
        IN  \E net \in Answers(loc) :
                LET out == SendRemote(resps[i], loc, net)
                    do == IF out.do THEN 1 ELSE 0
                    ok == IF out.sets THEN 1 ELSE 0
                IN  /\ pc = "handler"
                    /\ cur.sends < MaxSends
                    /\ req' = [req EXCEPT !.responseSent = req.responseSent \/ out.sets]
                    /\ delivered' = IF out.sets
                                    THEN Append(delivered, [idx |-> i, status |-> out.status])
                                    ELSE delivered
                    /\ lastCall' = SendCall("handler", i, out, req.responseSent)
                    /\ cur' = [cur EXCEPT !.sends = cur.sends + 1,
                                          !.hdoes = cur.hdoes + do,
                                          !.hoks = cur.hoks + ok]
                    /\ UNCHANGED <<resps, pc, tries>>

\* the errors a handler may return: its own, or the one its last Send gave
HandlerErrors ==
    {NewError(t) : t \in HandlerTexts}
    \cup (IF lastCall.op = "Send" /\ lastCall.out.err # Nil
          THEN {lastCall.out.err} ELSE {})

\* the handler returns nil
HandlerReturnNil ==
    /\ pc = "handler"
    /\ Finish("returned nil", "", PanicValue(""), Nil, Completed(Nil, req.responseSent))

\* the handler returns a non-nil error
HandlerReturnError ==
    \E e \in HandlerErrors :
        /\ pc = "handler"
        /\ Finish("returned error", "", PanicValue(""), e, Completed(e, req.responseSent))

\* the values a handler may panic with: an error or another value
HandlerPanics ==
    {PanicError(NewError(t)) : t \in PanicTexts}
    \cup {PanicValue(t) : t \in PanicTexts}

\* the handler panics, with an error or with another value
HandlerPanic ==
    \E rec \in HandlerPanics :
        /\ pc = "handler"
        /\ Finish("panicked", "", rec, Nil, Recovered(rec))

Next ==
    \/ TryCall
    \/ HandlerFailureResponse
    \/ HandlerCreatedResponse
    \/ HandlerReplacedResponse
    \/ HandlerUpdatedResponse
    \/ HandlerDeletedResponse
    \/ HandlerSensitive
    \/ HandlerSend
    \/ HandlerReturnNil
    \/ HandlerReturnError
    \/ HandlerPanic

Spec == Init /\ [][Next]_vars

(***************************************************************************)
(* Properties.                                                             *)
(***************************************************************************)
\* Try has ended (by returning or by panicking)
TryEnded == cur.result # "none"

\* the last library call was a Send
LastSend == lastCall.op = "Send"

\* http.DefaultClient.Do calls made during the invocation
Does == cur.hdoes + cur.tryDoes

\* the statuses the callback protocol counts as success
SuccessStatus == 200..299

\* len(body) of the Response the last Send was called on, as it was then
LastBodyLen == Len(Marshal(resps[lastCall.idx]).body)

\* C1 (as stated): when a Try invocation has ended, exactly one outbound
\* delivery call (a Send that reached http.DefaultClient.Do) was made during
\* it, whatever the handler did.
C1_ExactlyOneDeliveryCall == TryEnded => Does = 1

\* C1 (amended): Try itself makes at most one outbound delivery call per
\* invocation; it calls Send on a failure Response exactly when the sent
\* flag is false once the handler has ended; an invocation that started
\* with the flag false and returns to its caller has made at least one
\* outbound delivery call.  The calls the handler makes are not limited.
C1_DeliveryCalls ==
    TryEnded =>
        /\ cur.tryDoes <= 1
        /\ cur.trySends <= 1
        /\ (cur.trySends = 1 => LastSend /\ lastCall.by = "Try" /\ ~lastCall.sentBefore)
        /\ (cur.trySends = 0 => req.responseSent)
        /\ (cur.result = "returned" /\ ~cur.startSent => Does >= 1)

\* a handler's Send reached the endpoint and failed, and Try's own delivery
\* call followed: two delivery calls in one invocation
C1_Witness ==
    /\ cur.result = "returned"
    /\ cur.hdoes = 1
    /\ cur.tryDoes = 1
    /\ Does = 2

\* C2 (as stated): once Try has ended, exactly one Response built from the
\* Request has been successfully delivered (its Send returned nil).
C2_ExactlyOneDelivered == TryEnded => Len(delivered) = 1

\* C2 (amended): when Try returns to its caller at least one Response built
\* from the Request has been successfully delivered; Try delivers its
\* failure Response only when none was delivered before; when Try panics
\* none has been delivered.  The handler may deliver several.
C2_Delivered ==
    /\ (cur.result = "returned" => Len(delivered) >= 1)
    /\ (cur.result = "panicked" => delivered = <<>>)
    /\ (LastSend /\ lastCall.by = "Try" /\ lastCall.out.err = Nil
            => delivered = <<[idx |-> lastCall.idx, status |-> lastCall.out.status]>>)
    /\ (req.responseSent <=> delivered # <<>>)

\* the handler delivered twice and Try returned
C2_Witness ==
    /\ cur.result = "returned"
    /\ cur.hoks = 2
    /\ Len(delivered) = 2

\* C3: a Send changes the sent flag only when the endpoint answered with a
\* status in [200,299], and whenever the flag is true some earlier Send on a
\* Response of the Request received such a status.
C3_SentOnlyOnSuccessStatus ==
    /\ (LastSend /\ req.responseSent # lastCall.sentBefore
            => lastCall.out.do /\ lastCall.out.status \in SuccessStatus)
    /\ (req.responseSent
            => \E k \in 1..Len(delivered) : delivered[k].status \in SuccessStatus)
    /\ \A k \in 1..Len(delivered) : delivered[k].status \in SuccessStatus

\* a Send has just set the flag on an answer of 298
C3_Witness ==
    /\ LastSend
    /\ ~lastCall.sentBefore
    /\ req.responseSent
    /\ lastCall.out.status = 298

\* C4 (as stated): a Send that got an answer from the endpoint returns nil
\* and sets the flag for every status from 200 to 299, and returns the
\* unexpected-status error for every other status.
C4_SuccessRange ==
    LastSend /\ lastCall.out.do /\ lastCall.out.status # 0 =>
        IF lastCall.out.status \in SuccessStatus
        THEN lastCall.out.err = Nil /\ req.responseSent
        ELSE lastCall.out.cause = "status"

\* C5: a Send that returns an error leaves the sent flag as it was.
C5_FailedSendKeepsFlag ==
    LastSend /\ lastCall.out.err # Nil => req.responseSent = lastCall.sentBefore

\* a Send reached the endpoint, got a bad status and the flag is still false
C5_Witness ==
    /\ LastSend
    /\ lastCall.out.cause = "status"
    /\ ~lastCall.sentBefore
    /\ ~req.responseSent

\* C6: a Send whose body is longer than 4096 bytes returns the
\* payload-too-large error without building or transmitting an HTTP request;
\* a body of 4096 bytes or fewer is not rejected by the size check, and a
\* body of exactly 4096 bytes for a well-formed URL goes to transmission.
C6_SizeCheck ==
    LastSend /\ Marshal(resps[lastCall.idx]).err = Nil =>
        /\ (LastBodyLen > 4096
                => /\ lastCall.out.cause = "too large"
                   /\ lastCall.out.err # Nil
                   /\ ~lastCall.out.built
                   /\ ~lastCall.out.do
                   /\ ~lastCall.out.network)
        /\ (LastBodyLen <= 4096 => lastCall.out.cause # "too large")
        /\ (LastBodyLen = 4096 /\ resps[lastCall.idx].respurl = GoodURL
                => lastCall.out.do)

\* a Send of a body of 4097 bytes was rejected
C6_Witness ==
    /\ LastSend
    /\ Marshal(resps[lastCall.idx]).err = Nil
    /\ LastBodyLen = 4097
    /\ lastCall.out.cause = "too large"

\* the Response factories that are legal for one request type only
TypedFactories ==
    {"CreatedResponse", "ReplacedResponse", "UpdatedResponse", "DeletedResponse"}

\* the request type a typed factory is legal for
LegalType(op) ==
    CASE op = "CreatedResponse"  -> "Create"
      [] op = "ReplacedResponse" -> "Update"
      [] op = "UpdatedResponse"  -> "Update"
      [] op = "DeletedResponse"  -> "Delete"

\* C7: CreatedResponse panics unless the request type is Create,
\* ReplacedResponse and UpdatedResponse unless it is Update, DeletedResponse
\* unless it is Delete; an illegal call produces no Response and ends the
\* handler.
C7_TypedFactoriesPanic ==
    /\ \A physicalid \in PhysIds, attr \in Attrs :
          /\ (req.RequestType # "Create"
                => CreatedResponse(req, physicalid, attr).panicked)
          /\ (req.RequestType # "Update"
                => /\ ReplacedResponse(req, physicalid, attr).panicked
                   /\ UpdatedResponse(req, attr).panicked)
          /\ (req.RequestType # "Delete" => DeletedResponse(req).panicked)
    /\ (lastCall.op \in TypedFactories
          => /\ req.RequestType = LegalType(lastCall.op)
             /\ pc = "handler")
    /\ (cur.panicOp \in TypedFactories /\ req.RequestType # LegalType(cur.panicOp)
          => /\ cur.ended = "panicked"
             /\ pc # "handler"
             /\ Len(resps) = cur.built + cur.synth)

\* an Update request went to the Delete-only factory and the handler was
\* aborted
C7_Witness ==
    /\ req.RequestType = "Update"
    /\ cur.panicOp = "DeletedResponse"
    /\ cur.ended = "panicked"
    /\ TryEnded

\* C8: every Response built from the Request carries the Request's StackId,
\* RequestId and LogicalResourceId, also after Sensitive and Send.
C8_CorrelationIds ==
    \A i \in 1..Len(resps) :
        /\ resps[i].StackId = req.StackId
        /\ resps[i].RequestId = req.RequestId
        /\ resps[i].LogicalResourceId = req.LogicalResourceId

\* a Response of a decoded Request was marked sensitive and then delivered
C8_Witness ==
    /\ ~req.simulate
    /\ LastSend
    /\ lastCall.by = "handler"
    /\ lastCall.out.err = Nil
    /\ resps[lastCall.idx].NoEcho
    /\ resps[lastCall.idx].StackId = TheStackId

\* C9 (as stated): when the handler panicked, Try ends by returning to its
\* caller, whatever the delivery of the failure Response did.
C9_HandlerPanicNeverLeavesTry ==
    TryEnded /\ cur.ended = "panicked" => cur.result = "returned"

\* C9 (amended): the handler's panic is always recovered and becomes Try's
\* error; Try returns that error when the failure Response is delivered, and
\* returns it wrapped when the flag was already true; Try panics exactly
\* when the Send of its failure Response returns an error, and then with a
\* new panic value that wraps that delivery error.
C9_PanicRecovered ==
    TryEnded /\ cur.ended = "panicked" =>
        /\ (cur.result = "panicked"
              <=> cur.trySends = 1 /\ lastCall.out.err # Nil)
        /\ (cur.result = "panicked"
              => /\ ErrorsIs(cur.value, lastCall.out.err)
                 /\ ~ErrorsIs(cur.value, Recovered(cur.rec)))
        /\ (cur.result = "returned"
              => /\ ErrorsIs(cur.err, Recovered(cur.rec))
                 /\ (cur.rec.isError => ErrorsIs(cur.err, cur.rec.err)))

\* the handler panicked, the failure Response was delivered and Try
\* returned
C9_Witness ==
    /\ cur.ended = "panicked"
    /\ cur.panicOp = ""
    /\ cur.trySends = 1
    /\ cur.result = "returned"

\* C10 (as stated): when the handler returns a non-nil error and no Send on
\* the Request has succeeded, Try builds a failure Response with Status
\* FAILED and Reason equal to the error's text and calls Send on it once;
\* when the endpoint answers with a success status (200..299) the flag is
\* true and Try returns the handler's error.
C10_FailureDelivered ==
    TryEnded /\ cur.ended = "returned error" /\ ~cur.startSent /\ cur.hoks = 0 =>
        /\ cur.trySends = 1
        /\ LastSend /\ lastCall.by = "Try"
        /\ resps[lastCall.idx].Status = "FAILED"
        /\ resps[lastCall.idx].Reason = ErrorText(cur.herr)
        /\ (lastCall.out.status \in SuccessStatus
              => /\ req.responseSent
                 /\ cur.result = "returned"
                 /\ cur.err # Nil
                 /\ cur.err = cur.herr)

\* the sent flag as it was when the handler ended: true from the start or
\* set by one of the handler's Send calls
SentAtHandlerEnd == cur.startSent \/ cur.hoks >= 1

\* the handler ended with a failure: it returned an error or it panicked
HandlerFailed == cur.ended \in {"returned error", "panicked"}

\* the failure the handler ended with, as the inner defer leaves it in err
HandlerFailure ==
    IF cur.ended = "panicked" THEN Recovered(cur.rec) ELSE cur.herr

\* the text of the error of the completion check
MissingText == "no response generated and no error received"

\* C11: when the sent flag is already true as the handler ends with a
\* failure (a returned error or a recovered panic), Try calls Send on no
\* Response of its own and returns an error that wraps the original failure
\* and whose text says that the response was already sent.
C11_AlreadySentWraps ==
    TryEnded /\ HandlerFailed /\ SentAtHandlerEnd =>
        /\ cur.trySends = 0
        /\ cur.tryDoes = 0
        /\ Len(resps) = cur.built + cur.synth
        /\ cur.result = "returned"
        /\ cur.err # Nil
        /\ Tail(cur.err) = HandlerFailure
        /\ ErrorsIs(cur.err, HandlerFailure)
        /\ ErrorText(cur.err) = "received error but response already sent: "
                                    \o ErrorText(HandlerFailure)
        /\ req.responseSent

\* the handler delivered a Response and then returned an error; Try
\* returned
C11_Witness ==
    /\ cur.ended = "returned error"
    /\ cur.hoks >= 1
    /\ cur.result = "returned"
    /\ cur.trySends = 0

\* C12 (as stated): when the handler returns nil and the sent flag is still
\* false, Try builds no failure Response and calls Send on none.
C12_NoDeliveryOnNilReturn ==
    TryEnded /\ cur.ended = "returned nil" /\ ~SentAtHandlerEnd =>
        /\ cur.trySends = 0
        /\ cur.tryDoes = 0

\* C12 (amended): when the handler returns nil and the sent flag is still
\* false, Try builds a failure Response whose Reason is the text of the
\* completion check's error and calls Send on it once; Try returns that
\* error when the Send returns nil and panics when the Send returns an
\* error.
C12_NilReturnSendsFailure ==
    TryEnded /\ cur.ended = "returned nil" /\ ~SentAtHandlerEnd =>
        /\ cur.trySends = 1
        /\ LastSend /\ lastCall.by = "Try"
        /\ lastCall.idx = Len(resps)
        /\ resps[lastCall.idx].Status = "FAILED"
        /\ resps[lastCall.idx].Reason = MissingText
        /\ (lastCall.out.err = Nil
              => /\ cur.result = "returned"
                 /\ cur.err = NewError(MissingText)
                 /\ req.responseSent)
        /\ (lastCall.out.err # Nil
              => /\ cur.result = "panicked"
                 /\ ~req.responseSent)

\* the handler returned nil without sending, and Try's failure Response
\* reached the endpoint and was accepted
C12_Witness ==
    /\ cur.ended = "returned nil"
    /\ cur.sends = 0
    /\ cur.trySends = 1
    /\ cur.tryDoes = 1
    /\ cur.tryOks = 1
    /\ cur.result = "returned"

C14_SimulatedNoNetwork ==
    req.simulate =>
        /\ \A i \in 1..Len(resps) : resps[i].respurl = ""
        /\ (LastSend => /\ ~lastCall.out.network
                        /\ lastCall.out.status = 0
                        /\ lastCall.out.err # Nil)
        /\ delivered = <<>>
        /\ ~req.responseSent

\* a handler's Send on a Response of a simulated Request got as far as
\* http.DefaultClient.Do and was refused there
C14_Witness ==
    /\ req.simulate
    /\ LastSend
    /\ lastCall.by = "handler"
    /\ lastCall.out.built
    /\ lastCall.out.do
    /\ ~lastCall.out.network
    /\ lastCall.out.cause = "transport"

\* C15: when Try has a failure outcome with the sent flag false and the
\* Send of its failure Response returns an error, Try does not return: it
\* panics with a value that wraps the delivery error, and the flag stays
\* false.
C15_FailedFailureDeliveryPanics ==
    TryEnded /\ cur.trySends = 1 /\ lastCall.out.err # Nil =>
        /\ lastCall.by = "Try"
        /\ ~lastCall.sentBefore
        /\ cur.result = "panicked"
        /\ pc = "aborted"
        /\ cur.err = Nil
        /\ Tail(cur.value) = lastCall.out.err
        /\ ErrorText(cur.value) = "cannot send error response in error handler: "
                                      \o ErrorText(lastCall.out.err)
        /\ ~req.responseSent

\* the handler returned an error, the endpoint could not be reached and
\* Try panicked
C15_Witness ==
    /\ cur.ended = "returned error"
    /\ cur.trySends = 1
    /\ lastCall.out.cause = "transport"
    /\ lastCall.out.network
    /\ cur.result = "panicked"

\* C16: a Try invocation that starts with the sent flag false ends by
\* returning nil with the flag true, by returning an error with the flag
\* true, or by panicking; it never returns while the flag is false.
C16_TerminalStates ==
    TryEnded /\ ~cur.startSent =>
        \/ /\ cur.result = "returned"
           /\ pc = "main"
           /\ req.responseSent
        \/ /\ cur.result = "panicked"
           /\ pc = "aborted"
           /\ ~req.responseSent

\* the handler delivered a Response and returned nil; Try returned nil
C16_Witness ==
    /\ ~cur.startSent
    /\ cur.ended = "returned nil"
    /\ cur.hoks = 1
    /\ cur.result = "returned"
    /\ cur.err = Nil
    /\ req.responseSent

\* the Request as it was when the handler ended
AtHandlerEnd == [req EXCEPT !.responseSent = SentAtHandlerEnd]

\* what Try did after the handler ended, as the invocation recorded it
Reconciled ==
    [attempts |-> cur.trySends,
     sent     |-> req.responseSent,
     outcome  |-> IF cur.result = "panicked" THEN "panicked"
                  ELSE IF cur.err = Nil THEN "returned nil"
                  ELSE "returned error"]

\* the endpoint behaviours that agree with what Try's Send saw of the
\* endpoint (any behaviour when it did not get that far)
ObservedAnswers ==
    IF cur.trySends = 1 /\ lastCall.out.network
    THEN {IF lastCall.out.cause = "transport"
          THEN [kind |-> "error", status |-> 0]
          ELSE [kind |-> "status", status |-> lastCall.out.status]}
    ELSE NetOutcomes

\* the failures of the other kind: the errors a handler may return when it
\* panicked, the recovered panics when it returned an error
OtherFailures ==
    IF cur.ended = "panicked"
    THEN {NewError(t) : t \in HandlerTexts}
    ELSE {Recovered(rec) : rec \in HandlerPanics}

\* the failure Response built from err for r passes the size check of Send
FailureFits(r, err) ==
    \/ err = Nil
    \/ SendLocal(FailureResponse(r, ErrorText(err)).resp).cause # "too large"

\* C17 (as stated): from the same sent flag and the same endpoint
\* behaviour, a handler that panics and a handler that returns an error
\* lead to the same number of delivery attempts by Try, the same final flag
\* and the same kind of outcome, whatever the error texts are.
C17_SameReconciliation ==
    TryEnded /\ HandlerFailed =>
        \A net \in ObservedAnswers : \A e \in OtherFailures :
            Reconcile(AtHandlerEnd, e, net) = Reconciled

\* C17 (amended): the same, for a panic and a returned error whose failure
\* Responses are both within the 4096-byte limit of Send or both over it
\* (or when the flag is already true, so that no failure Response is built).
C17_SameReconciliationSameSize ==
    TryEnded /\ HandlerFailed =>
        \A net \in ObservedAnswers :
            /\ Reconcile(AtHandlerEnd, HandlerFailure, net) = Reconciled
            /\ \A e \in OtherFailures :
                  (\/ SentAtHandlerEnd
                   \/ FailureFits(AtHandlerEnd, e)
                         <=> FailureFits(AtHandlerEnd, HandlerFailure))
                    => Reconcile(AtHandlerEnd, e, net) = Reconciled

\* the handler returned an error, Try delivered the failure Response, and
\* a panicking handler would have had its failure Response delivered too
C17_Witness ==
    /\ cur.ended = "returned error"
    /\ cur.trySends = 1
    /\ cur.tryOks = 1
    /\ cur.result = "returned"
    /\ \E e \in OtherFailures : \E net \in ObservedAnswers :
          /\ FailureFits(AtHandlerEnd, e)
          /\ Reconcile(AtHandlerEnd, e, net).outcome = "returned error"

\* the factories whose Response keeps the physical id of the Request
EchoingFactories == {"UpdatedResponse", "DeletedResponse", "FailureResponse"}

\* C18: on an Update request ReplacedResponse returns a Response exactly
\* when the given physical id is non-empty and differs from the Request's
\* PhysicalResourceId, and panics otherwise; the Response it returns carries
\* the new physical id; the Responses of UpdatedResponse, DeletedResponse
\* and FailureResponse (Try's own included) carry the Request's.
C18_ReplacedPhysicalId ==
    /\ req.RequestType = "Update" =>
          \A physicalid \in PhysIds, attr \in Attrs :
              /\ ReplacedResponse(req, physicalid, attr).panicked
                    <=> (physicalid = "" \/ physicalid = req.PhysicalResourceId)
              /\ ~ReplacedResponse(req, physicalid, attr).panicked
                    => ReplacedResponse(req, physicalid, attr).resp.PhysicalResourceId
                          = physicalid
    /\ (lastCall.op = "ReplacedResponse"
          => /\ req.RequestType = "Update"
             /\ resps[lastCall.idx].PhysicalResourceId # ""
             /\ resps[lastCall.idx].PhysicalResourceId # req.PhysicalResourceId)
    /\ (cur.panicOp = "ReplacedResponse" /\ req.RequestType = "Update"
          => /\ cur.ended = "panicked"
             /\ cur.rec.text \in {"replaced response with same physicalid",
                                   "replaced response with empty physicalid"})
    /\ (lastCall.op \in EchoingFactories
          => resps[lastCall.idx].PhysicalResourceId = req.PhysicalResourceId)
    /\ (LastSend /\ lastCall.by = "Try"
          => resps[lastCall.idx].PhysicalResourceId = req.PhysicalResourceId)

\* the handler of an Update request built a replaced Response with a new
\* physical id
C18_Witness ==
    /\ req.RequestType = "Update"
    /\ req.PhysicalResourceId = OldPhysId
    /\ lastCall.op = "ReplacedResponse"
    /\ resps[lastCall.idx].PhysicalResourceId = NewPhysId

\* C19 (as stated): in every Response built by a factory or by Try the
\* Reason is non-empty exactly when Status is FAILED.
C19_ReasonIffFailed ==
    \A i \in 1..Len(resps) :
        resps[i].Reason # "" <=> resps[i].Status = "FAILED"

====
